---- MODULE Spec2Model ----
(***************************************************************************)
(* Room / phase orchestration core of DRAWGAME: the in-memory store        *)
(* (server/storage.ts), the phase timers, the chain assignment and the     *)
(* WebSocket message handlers (server/routes.ts), with the message schema  *)
(* that routes.ts parses every inbound message against.                    *)
(*                                                                         *)
(* One room exists (created through POST /api/rooms before any socket      *)
(* traffic).  Every handler is one action: all its awaits are on promises  *)
(* of the in-memory store, which resolve in the microtask queue, so a      *)
(* handler started by one socket or timer event runs to completion before  *)
(* the next event is dispatched.  The frames of one chunk of one           *)
(* connection are the exception, their handlers start in the same tick:    *)
(* the specification Interleaved takes the join_room handler apart at its  *)
(* awaits for them.                                                        *)
(***************************************************************************)
EXTENDS Integers, Sequences, FiniteSets, TLC

(* ------------------------------ bounds --------------------------------- *)
NumConns == 4          \* connections ever accepted by the socket server
MaxJoins == 5          \* players ever created
MaxDepartures == 1     \* departures: players removed from the roster plus connections closed
MaxStarts == 2         \* successful start_game requests
RoomMaxPlayers == 4    \* largest maxPlayers a room is created with
MaxTotalRounds == 2    \* largest totalRounds a room is created with
DrawingTime == 2       \* drawingTime of the room, in seconds
GuessingTime == 1      \* guessingTime of the room, in seconds
MaxSteps == 4          \* steps a chain may hold before submissions stop being explored
MaxBurst == 2          \* join_room frames of one connection that arrive in one chunk

(* --------------------------- program constants ------------------------- *)
MinPlayers == 4        \* start_game: "Need at least 4 players to start"
MinMaxPlayers == 4     \* roomSchema: maxPlayers min(4)

Conns == 1..NumConns
Names == 1..(RoomMaxPlayers + 1)
TheRoom == 1
RoomIds == {1, 2}                        \* 2 is the id of no stored room
TheCode == "ROOM01"
RoomCodes == {"ROOM01", "room01", "NOROOM"}
Prompts == {"cat"}
Images == {"img"}
GuessTexts == {"dog"}
NoPlayer == 0                            \* undefined playerId / hostId ""
NoRoomId == 0                            \* undefined connection.roomId
NoTimer == 0
NoDrawing == 0                           \* undefined drawingId
NoRoom == [id |-> 0]                     \* undefined result of getRoom
Undefined == ""                          \* undefined or empty string: both falsy

VARIABLES
  room,          \* MemStorage.rooms: the one stored Room
  gameChains,    \* MemStorage.gameChains, in insertion order
  drawings,      \* MemStorage.drawings, in insertion order
  guesses,       \* MemStorage.guesses, in insertion order
  connections,   \* the connections map: id -> [state, playerId, roomId]
  activeTimers,  \* the activeTimers map: roomId -> interval id of its PhaseTimer
  intervals,     \* the setInterval handles that have not been cleared
  nextPlayerId,  \* the players created so far, plus one: the id randomUUID gives the next
  sent,          \* the messages emitted by the last handler, in order
  submitted,     \* FullGame only: the players that have sent the submission of
                 \* the running phase
  pending        \* Interleaved only: the join_room handlers that have not
                 \* returned, in the order of their next resumption

vars == <<room, gameChains, drawings, guesses, connections, activeTimers,
          intervals, nextPlayerId, sent, submitted, pending>>

(* ------------------------------ helpers -------------------------------- *)
Max(a, b) == IF a >= b THEN a ELSE b

RECURSIVE SelectBy(_, _)
\* Array.prototype.filter on an array of player records: drop one id
SelectBy(s, pid) ==
  IF s = <<>> THEN <<>>
  ELSE IF Head(s).id # pid THEN <<Head(s)>> \o SelectBy(Tail(s), pid)
       ELSE SelectBy(Tail(s), pid)

\* Array.prototype.findIndex(p => p.id === pid), 0-based, -1 when absent
findIndex(players, pid) ==
  IF \E k \in 1..Len(players) : players[k].id = pid
  THEN (CHOOSE k \in 1..Len(players) :
          /\ players[k].id = pid
          /\ \A j \in 1..(k - 1) : players[j].id # pid) - 1
  ELSE -1

\* String.prototype.toUpperCase on the room codes of the model
toUpperCase(code) == IF code = "room01" THEN "ROOM01" ELSE code

(* ------------------------------ storage -------------------------------- *)
getRoom(id) == IF id = room.id THEN room ELSE NoRoom

getRoomByCode(code) == IF room.code = code THEN room ELSE NoRoom

addPlayerToRoom(rm, player) == [rm EXCEPT !.players = Append(@, player)]

removePlayerFromRoom(rm, pid) == [rm EXCEPT !.players = SelectBy(@, pid)]

updatePlayer(rm, pid, status) ==
  LET i == findIndex(rm.players, pid) IN
  IF i = -1 THEN rm
  ELSE [rm EXCEPT !.players[i + 1].status = status]

\* storage.getPlayer(...)?.isHost
getPlayerIsHost(rm, pid) ==
  \E k \in 1..Len(rm.players) :
     /\ rm.players[k].id = pid
     /\ \A j \in 1..(k - 1) : rm.players[j].id # pid
     /\ rm.players[k].isHost

\* for (const player of players) updatePlayer(roomId, player.id, {status}):
setAllStatus_Nothing(rm, players, status) == rm

\* every updatePlayer sets the status of the first roster entry of its id, so
\* the loop sets it at the indices that findIndex gives for the ids of players
setAllStatus(rm, players, status) ==
  [rm EXCEPT !.players =
     [k \in 1..Len(rm.players) |->
        IF \E j \in 1..Len(players) : findIndex(rm.players, players[j].id) = k - 1
        THEN [rm.players[k] EXCEPT !.status = status]
        ELSE rm.players[k]]]

everyFinished(rm) == \A k \in 1..Len(rm.players) : rm.players[k].status = "finished"

getGameChainsByRoom(chains, rid) == SelectSeq(chains, LAMBDA ch : ch.roomId = rid)

\* chains.find(c => c.chainIndex === idx): position in the store, 0 when absent
findChain(chains, rid, idx) ==
  IF \E k \in 1..Len(chains) : chains[k].roomId = rid /\ chains[k].chainIndex = idx
  THEN CHOOSE k \in 1..Len(chains) :
          /\ chains[k].roomId = rid /\ chains[k].chainIndex = idx
          /\ \A j \in 1..(k - 1) : ~(chains[j].roomId = rid /\ chains[j].chainIndex = idx)
  ELSE 0

\* the names a join_room can carry: one held in the room, or a new one (the
\* least one, names being interchangeable)
UsedNames == {room.players[k].name : k \in 1..Len(room.players)}

FreshName == CHOOSE n \in 1..(Cardinality(UsedNames) + 1) : n \notin UsedNames

(* ------------------------------- timers -------------------------------- *)
stopPhaseTimer_NoClear(tm, rid) ==
  IF tm.active[rid] # NoTimer
  THEN [active |-> [tm.active EXCEPT ![rid] = NoTimer], live |-> tm.live]
  ELSE tm

\* clearInterval(timer.intervalId); activeTimers.delete(roomId)
stopPhaseTimer(tm, rid) ==
  IF tm.active[rid] # NoTimer
  THEN [active |-> [tm.active EXCEPT ![rid] = NoTimer],
        live   |-> {i \in tm.live : i.id # tm.active[rid]}]
  ELSE tm

startPhaseTimer_NoInterval(tm, rid, duration) ==
  LET s  == stopPhaseTimer(tm, rid)
      id == CHOOSE n \in 1..(Cardinality(s.live) + 1) : \A i \in s.live : i.id # n
  IN [active |-> [s.active EXCEPT ![rid] = id], live |-> s.live]

startPhaseTimer_NoStop(tm, rid, duration) ==
  LET id == CHOOSE n \in 1..(Cardinality(tm.live) + 1) : \A i \in tm.live : i.id # n
  IN [active |-> [tm.active EXCEPT ![rid] = id],
      live   |-> tm.live \cup {[id |-> id, roomId |-> rid, duration |-> duration, elapsed |-> 0]}]

startPhaseTimer(tm, rid, duration) ==
  LET s  == stopPhaseTimer(tm, rid)
      id == CHOOSE n \in 1..(Cardinality(s.live) + 1) : \A i \in s.live : i.id # n
  IN [active |-> [s.active EXCEPT ![rid] = id],
      live   |-> s.live \cup {[id |-> id, roomId |-> rid, duration |-> duration, elapsed |-> 0]}]

Timers == [active |-> activeTimers, live |-> intervals]

SetTimers(tm) == activeTimers' = tm.active /\ intervals' = tm.live

(* ------------------------------ transport ------------------------------ *)
\* broadcastToRoom: the open connections bound to the room, minus the excluded one
Recipients(conns, rid, exclude) ==
  {c \in Conns : conns[c].state = "open" /\ conns[c].roomId = rid /\ c # exclude}

ErrorMsg(c, text) == [type |-> "error", to |-> {c}, message |-> text]

\* a handler that answers the sender with an error and touches nothing else
Reject(c, text) ==
  /\ sent' = <<ErrorMsg(c, text)>>
  /\ UNCHANGED <<room, gameChains, drawings, guesses, connections, activeTimers,
                 intervals, nextPlayerId>>

\* a handler that returns without any effect
Ignore ==
  /\ sent' = <<>>
  /\ UNCHANGED <<room, gameChains, drawings, guesses, connections, activeTimers,
                 intervals, nextPlayerId>>

\* the "type" literals of wsMessageSchema
wsMessageTypes ==
  {"join_room", "leave_room", "start_game", "drawing_update",
   "submit_drawing", "submit_guess", "next_round"}

(* ------------------------------- Init ---------------------------------- *)
Init ==
  /\ \E mp \in MinMaxPlayers..RoomMaxPlayers, tr \in 1..MaxTotalRounds :
       room = [id |-> TheRoom, code |-> TheCode, hostId |-> NoPlayer,
               players |-> <<>>, maxPlayers |-> mp,
               currentPhase |-> "lobby", currentRound |-> 0,
               totalRounds |-> tr,
               drawingTime |-> DrawingTime, guessingTime |-> GuessingTime]
  /\ gameChains = <<>>
  /\ drawings = <<>>
  /\ guesses = <<>>
  /\ connections = [c \in Conns |-> [state |-> "new", playerId |-> NoPlayer, roomId |-> NoRoomId]]
  /\ activeTimers = [r \in RoomIds |-> NoTimer]
  /\ intervals = {}
  /\ nextPlayerId = 1
  /\ sent = <<>>
  /\ submitted = {}
  /\ pending = <<>>

(* --------------------------- connection events ------------------------- *)
\* wss.on('connection'): every connection gets an id of its own (randomBytes),
\* here the next number
Connect(c) ==
  /\ sent = <<>>
  /\ connections[c].state = "new"
  /\ \A d \in 1..(c - 1) : connections[d].state # "new"
  /\ connections' = [connections EXCEPT ![c].state = "open"]
  /\ sent' = <<>>
  /\ UNCHANGED <<room, gameChains, drawings, guesses, activeTimers, intervals, nextPlayerId>>

\* The messages of a handler are written to the sockets (ws.send) before the
\* event loop dispatches the next socket or timer event.
Flush ==
  /\ sent # <<>>
  /\ sent' = <<>>
  /\ UNCHANGED <<room, gameChains, drawings, guesses, connections, activeTimers,
                 intervals, nextPlayerId>>

\* Open connections bound to no player differ in nothing but their id, so of
\* those only the one with the least id is taken to send or to close.
Acting(c) ==
  /\ sent = <<>>
  /\ connections[c].state = "open"
  /\ \/ connections[c].playerId # NoPlayer
     \/ \A d \in 1..(c - 1) :
          connections[d].state # "open" \/ connections[d].playerId # NoPlayer

\* the players removed from the roster so far, the connections closed so far
PlayersLeft == (nextPlayerId - 1) - Len(room.players)

ConnsClosed == Cardinality({c \in Conns : connections[c].state = "closed"})

Closing_AnyPhase(c) ==
  /\ Acting(c)
  /\ LET conn == connections[c]
         rm   == getRoom(conn.roomId)
     IN IF conn.playerId # NoPlayer /\ conn.roomId # NoRoomId /\ rm # NoRoom
        THEN LET r1 == removePlayerFromRoom(rm, conn.playerId)
                 tm == IF Len(r1.players) = 0 THEN stopPhaseTimer(Timers, conn.roomId)
                       ELSE Timers
             IN /\ room' = r1
                /\ SetTimers(tm)
                /\ sent' = <<[type |-> "player_disconnected",
                              to |-> Recipients(connections, conn.roomId, c),
                              playerId |-> conn.playerId]>>
        ELSE /\ sent' = <<>>
             /\ UNCHANGED <<room, activeTimers, intervals>>
  /\ connections' = [connections EXCEPT ![c] = [state |-> "closed", playerId |-> NoPlayer, roomId |-> NoRoomId]]
  /\ UNCHANGED <<gameChains, drawings, guesses, nextPlayerId>>

\* ws.on('close')
Closing(c) ==
  /\ Acting(c)
  /\ LET conn == connections[c]
         rm   == getRoom(conn.roomId)
     IN IF conn.playerId # NoPlayer /\ conn.roomId # NoRoomId
           /\ rm # NoRoom /\ rm.currentPhase = "lobby"
        THEN LET r1 == removePlayerFromRoom(rm, conn.playerId)
                 tm == IF Len(r1.players) = 0 THEN stopPhaseTimer(Timers, conn.roomId)
                       ELSE Timers
             IN /\ room' = r1
                /\ SetTimers(tm)
                /\ sent' = <<[type |-> "player_disconnected",
                              to |-> Recipients(connections, conn.roomId, c),
                              playerId |-> conn.playerId]>>
        ELSE /\ sent' = <<>>
             /\ UNCHANGED <<room, activeTimers, intervals>>
  /\ connections' = [connections EXCEPT ![c] = [state |-> "closed", playerId |-> NoPlayer, roomId |-> NoRoomId]]
  /\ UNCHANGED <<gameChains, drawings, guesses, nextPlayerId>>

\* a close, while the departures explored are below their bound
Close(c) ==
  /\ ConnsClosed + PlayersLeft < MaxDepartures
  /\ Closing(c)

(* --------------------------- message handlers -------------------------- *)
OnMessage_NoSchema(c, type, handler) == handler

\* ws.on('message'): JSON.parse and wsMessageSchema.parse throw on a message
\* the schema does not list; the catch answers "Invalid message format".
OnMessage(c, type, handler) ==
  IF type \in wsMessageTypes THEN handler
     ELSE Reject(c, "Invalid message format")

\* join_room guards
RoomIsFull_OffByOne(rm) == Len(rm.players) > rm.maxPlayers

RoomIsFull(rm) == Len(rm.players) >= rm.maxPlayers

NameTaken_Never(rm, name) == FALSE

NameTaken(rm, name) == \E k \in 1..Len(rm.players) : rm.players[k].name = name

HandleJoinRoom(c, code, name) ==
  LET rm == getRoomByCode(toUpperCase(code)) IN
  IF rm = NoRoom THEN Reject(c, "Room not found")
  ELSE IF RoomIsFull(rm) THEN Reject(c, "Room is full")
  ELSE IF NameTaken(rm, name) THEN Reject(c, "Name already taken")
  ELSE LET player == [id |-> nextPlayerId, name |-> name,
                      isHost |-> (Len(rm.players) = 0), socketId |-> c,
                      status |-> "waiting"]
           r1 == addPlayerToRoom(rm, player)
           r2 == IF Len(rm.players) = 0 THEN [r1 EXCEPT !.hostId = player.id] ELSE r1
           conns == [connections EXCEPT ![c].playerId = player.id, ![c].roomId = rm.id]
       IN /\ nextPlayerId <= MaxJoins
          /\ room' = r2
          /\ connections' = conns
          /\ nextPlayerId' = nextPlayerId + 1
          /\ sent' = <<[type |-> "room_joined", to |-> {c}, room |-> r2, playerId |-> player.id],
                       [type |-> "player_joined", to |-> Recipients(conns, rm.id, c),
                        room |-> r2, playerId |-> player.id]>>
          /\ UNCHANGED <<gameChains, drawings, guesses, activeTimers, intervals>>

JoinRoom(c, code, name) ==
  /\ Acting(c)
  /\ name \in UsedNames \/ name = FreshName
  /\ OnMessage(c, "join_room", HandleJoinRoom(c, code, name))

HandleLeaveRoom_KeepsTimer(c, rid) ==
  LET conn == connections[c] IN
  IF conn.playerId # NoPlayer /\ conn.roomId = rid
  THEN LET r1 == removePlayerFromRoom(room, conn.playerId)
       IN /\ room' = r1
          /\ sent' = <<[type |-> "player_left", to |-> Recipients(connections, rid, 0),
                        room |-> r1, playerId |-> conn.playerId]>>
          /\ connections' = [connections EXCEPT ![c].playerId = NoPlayer, ![c].roomId = NoRoomId]
          /\ UNCHANGED <<gameChains, drawings, guesses, nextPlayerId, activeTimers, intervals>>
  ELSE Ignore

HandleLeaveRoom_AnyRoom(c, rid) ==
  LET conn == connections[c] IN
  IF conn.playerId # NoPlayer
  THEN LET r1 == removePlayerFromRoom(room, conn.playerId)
           tm == IF Len(r1.players) = 0 THEN stopPhaseTimer(Timers, rid) ELSE Timers
       IN /\ room' = r1
          /\ SetTimers(tm)
          /\ sent' = <<[type |-> "player_left", to |-> Recipients(connections, rid, 0),
                        room |-> r1, playerId |-> conn.playerId]>>
          /\ connections' = [connections EXCEPT ![c].playerId = NoPlayer, ![c].roomId = NoRoomId]
          /\ UNCHANGED <<gameChains, drawings, guesses, nextPlayerId>>
  ELSE Ignore

HandleLeaveRoom(c, rid) ==
  LET conn == connections[c] IN
  IF conn.playerId # NoPlayer /\ conn.roomId = rid
  THEN LET r1 == removePlayerFromRoom(room, conn.playerId)
           tm == IF Len(r1.players) = 0 THEN stopPhaseTimer(Timers, rid) ELSE Timers
       IN /\ room' = r1
          /\ SetTimers(tm)
          /\ sent' = <<[type |-> "player_left", to |-> Recipients(connections, rid, 0),
                        room |-> r1, playerId |-> conn.playerId]>>
          /\ connections' = [connections EXCEPT ![c].playerId = NoPlayer, ![c].roomId = NoRoomId]
          /\ UNCHANGED <<gameChains, drawings, guesses, nextPlayerId>>
  ELSE Ignore

Leaving(c, rid) ==
  /\ Acting(c)
  /\ OnMessage(c, "leave_room", HandleLeaveRoom(c, rid))

\* a leave_room, while the departures explored are below their bound
LeaveRoom(c, rid) ==
  /\ ConnsClosed + PlayersLeft < MaxDepartures
  /\ Leaving(c, rid)

\* start_game guards
EnoughPlayers_Three(rm) == Len(rm.players) >= MinPlayers - 1

EnoughPlayers(rm) == Len(rm.players) >= MinPlayers

StartsSoFar == Cardinality({k \in 1..Len(gameChains) : gameChains[k].chainIndex = 0})

NewChains_FromOne(rid, n) == [i \in 1..n |-> [roomId |-> rid, chainIndex |-> i, steps |-> <<>>]]

\* for (let i = 0; i < players.length; i++) createGameChain({roomId, chainIndex: i, steps: []})
NewChains(rid, n) == [i \in 1..n |-> [roomId |-> rid, chainIndex |-> i - 1, steps |-> <<>>]]

HandleStartGame(c, rid) ==
  LET conn == connections[c]
      rm   == getRoom(rid)
  IN
  IF conn.playerId = NoPlayer \/ conn.roomId # rid THEN Reject(c, "Unauthorized")
  ELSE IF rm = NoRoom THEN Reject(c, "Room not found")
  ELSE IF ~getPlayerIsHost(rm, conn.playerId) THEN Reject(c, "Only host can start game")
  ELSE IF ~EnoughPlayers(rm) THEN Reject(c, "Need at least 4 players to start")
  ELSE LET r1 == [rm EXCEPT !.currentPhase = "writing", !.currentRound = 1] IN
       /\ room' = r1
       /\ gameChains' = gameChains \o NewChains(rid, Len(r1.players))
       /\ SetTimers(startPhaseTimer(Timers, rid, r1.drawingTime))
       /\ sent' = <<[type |-> "game_started", to |-> Recipients(connections, rid, 0), room |-> r1]>>
       /\ UNCHANGED <<drawings, guesses, connections, nextPlayerId>>

StartGame(c, rid) ==
  /\ Acting(c)
  /\ StartsSoFar < MaxStarts
  /\ OnMessage(c, "start_game", HandleStartGame(c, rid))

(* --------------------------- chain assignment -------------------------- *)
getChainIndexForPlayer_NoWrap(playerIndex, round, numPlayers, phase) ==
  IF phase = "writing" THEN playerIndex
  ELSE LET rotation == round \div 2 IN playerIndex + rotation

getChainIndexForPlayer(playerIndex, round, numPlayers, phase) ==
  IF phase = "writing" THEN playerIndex
  ELSE LET rotation == round \div 2 IN (playerIndex + rotation) % numPlayers

Task(chainIndex, prompt, drawingImageUrl, drawingId) ==
  [isNull |-> FALSE, chainIndex |-> chainIndex, prompt |-> prompt,
   drawingImageUrl |-> drawingImageUrl, drawingId |-> drawingId]

NullTask ==
  [isNull |-> TRUE, chainIndex |-> -1, prompt |-> Undefined,
   drawingImageUrl |-> Undefined, drawingId |-> NoDrawing]

\* drawings.find(d => d.playerId === step.playerId && d.imageUrl === step.content)
\* over getDrawingsByRound(roomId, round): the id of the first match
findDrawingId(drws, rid, round, step) ==
  LET match(d) == /\ d.roomId = rid /\ d.round = round
                  /\ d.playerId = step.playerId /\ d.imageUrl = step.content
  IN IF \E k \in 1..Len(drws) : match(drws[k])
     THEN drws[CHOOSE k \in 1..Len(drws) :
                 match(drws[k]) /\ \A j \in 1..(k - 1) : ~match(drws[j])].id
     ELSE NoDrawing

getPlayerTask_FirstText(rm, chains, drws, pid) ==
  LET playerIndex == findIndex(rm.players, pid) IN
  IF playerIndex = -1 THEN NullTask
  ELSE
    LET chainIndex == getChainIndexForPlayer(playerIndex, rm.currentRound,
                                             Len(rm.players), rm.currentPhase)
        k == findChain(chains, rm.id, chainIndex)
    IN
    IF k = 0 THEN Task(chainIndex, Undefined, Undefined, NoDrawing)
    ELSE IF rm.currentPhase = "drawing" THEN
      LET textSteps == SelectSeq(chains[k].steps,
                                 LAMBDA st : st.type = "prompt" \/ st.type = "guess")
      IN Task(chainIndex,
              IF textSteps = <<>> THEN Undefined ELSE textSteps[1].content,
              Undefined, NoDrawing)
    ELSE IF rm.currentPhase = "guessing" THEN
      LET drawingRound == rm.currentRound - 1
          drawingSteps == SelectSeq(chains[k].steps,
                                    LAMBDA st : st.type = "drawing" /\ st.round = drawingRound)
      IN IF drawingSteps = <<>> THEN Task(chainIndex, Undefined, Undefined, NoDrawing)
         ELSE Task(chainIndex, Undefined, Head(drawingSteps).content,
                   findDrawingId(drws, rm.id, drawingRound, Head(drawingSteps)))
    ELSE Task(chainIndex, Undefined, Undefined, NoDrawing)

getPlayerTask(rm, chains, drws, pid) ==
  LET playerIndex == findIndex(rm.players, pid) IN
  IF playerIndex = -1 THEN NullTask
  ELSE
    LET chainIndex == getChainIndexForPlayer(playerIndex, rm.currentRound,
                                             Len(rm.players), rm.currentPhase)
        k == findChain(chains, rm.id, chainIndex)
    IN
    IF k = 0 THEN Task(chainIndex, Undefined, Undefined, NoDrawing)
    ELSE IF rm.currentPhase = "drawing" THEN
      LET textSteps == SelectSeq(chains[k].steps,
                                 LAMBDA st : st.type = "prompt" \/ st.type = "guess")
      IN Task(chainIndex,
              IF textSteps = <<>> THEN Undefined ELSE textSteps[Len(textSteps)].content,
              Undefined, NoDrawing)
    ELSE IF rm.currentPhase = "guessing" THEN
      LET drawingRound == rm.currentRound - 1
          drawingSteps == SelectSeq(chains[k].steps,
                                    LAMBDA st : st.type = "drawing" /\ st.round = drawingRound)
      IN IF drawingSteps = <<>> THEN Task(chainIndex, Undefined, Undefined, NoDrawing)
         ELSE Task(chainIndex, Undefined, Head(drawingSteps).content,
                   findDrawingId(drws, rm.id, drawingRound, Head(drawingSteps)))
    ELSE Task(chainIndex, Undefined, Undefined, NoDrawing)

(* --------------------------- phase advancement ------------------------- *)
\* const currentCycle = Math.floor(room.currentRound / 2)
currentCycle(rm) == rm.currentRound \div 2

cycleReached_Strict(rm) == currentCycle(rm) > rm.totalRounds

\* if (currentCycle >= room.totalRounds): the drawing phase just completed was
\* the last one
cycleReached(rm) == currentCycle(rm) >= rm.totalRounds

progressPhase_GuessingKeepsRound(rm, tm) ==
  LET r1 == IF rm.currentPhase = "writing"
            THEN [rm EXCEPT !.currentPhase = "drawing", !.currentRound = 2]
            ELSE IF rm.currentPhase = "drawing"
            THEN IF cycleReached(rm)
                 THEN [rm EXCEPT !.currentPhase = "results"]
                 ELSE [rm EXCEPT !.currentPhase = "guessing", !.currentRound = @ + 1]
            ELSE IF rm.currentPhase = "guessing"
            THEN [rm EXCEPT !.currentPhase = "drawing"]
            ELSE rm
      r2 == setAllStatus(r1, rm.players, "waiting")
      tm2 == IF r2.currentPhase # "results" /\ r2.currentPhase # "lobby"
             THEN startPhaseTimer(tm, rm.id,
                    IF r2.currentPhase = "drawing" THEN r2.drawingTime
                    ELSE IF r2.currentPhase = "writing" THEN r2.drawingTime
                    ELSE r2.guessingTime)
             ELSE tm
  IN [room |-> r2, timers |-> tm2]

progressPhase_ResultsAdvancesRound(rm, tm) ==
  LET r1 == IF rm.currentPhase = "writing"
            THEN [rm EXCEPT !.currentPhase = "drawing", !.currentRound = 2]
            ELSE IF rm.currentPhase = "drawing"
            THEN IF cycleReached(rm)
                 THEN [rm EXCEPT !.currentPhase = "results", !.currentRound = @ + 1]
                 ELSE [rm EXCEPT !.currentPhase = "guessing", !.currentRound = @ + 1]
            ELSE IF rm.currentPhase = "guessing"
            THEN [rm EXCEPT !.currentPhase = "drawing", !.currentRound = @ + 1]
            ELSE rm
      r2 == setAllStatus(r1, rm.players, "waiting")
      tm2 == IF r2.currentPhase # "results" /\ r2.currentPhase # "lobby"
             THEN startPhaseTimer(tm, rm.id,
                    IF r2.currentPhase = "drawing" THEN r2.drawingTime
                    ELSE IF r2.currentPhase = "writing" THEN r2.drawingTime
                    ELSE r2.guessingTime)
             ELSE tm
  IN [room |-> r2, timers |-> tm2]

\* progressPhase: the room and the timers it leaves behind
progressPhase(rm, tm) ==
  LET r1 == IF rm.currentPhase = "writing"
            THEN [rm EXCEPT !.currentPhase = "drawing", !.currentRound = 2]
            ELSE IF rm.currentPhase = "drawing"
            THEN IF cycleReached(rm)
                 THEN [rm EXCEPT !.currentPhase = "results"]
                 ELSE [rm EXCEPT !.currentPhase = "guessing", !.currentRound = @ + 1]
            ELSE IF rm.currentPhase = "guessing"
            THEN [rm EXCEPT !.currentPhase = "drawing", !.currentRound = @ + 1]
            ELSE rm
      r2 == setAllStatus(r1, rm.players, "waiting")
      tm2 == IF r2.currentPhase # "results" /\ r2.currentPhase # "lobby"
             THEN startPhaseTimer(tm, rm.id,
                    IF r2.currentPhase = "drawing" THEN r2.drawingTime
                    ELSE IF r2.currentPhase = "writing" THEN r2.drawingTime
                    ELSE r2.guessingTime)
             ELSE tm
  IN [room |-> r2, timers |-> tm2]

finishWaiting_Nobody(rm, players) == rm

\* handlePhaseTimeout: for every player of the snapshot in status waiting,
\* updatePlayer(roomId, player.id, {status: "finished"})
finishWaiting(rm, players) ==
  [rm EXCEPT !.players =
     [k \in 1..Len(rm.players) |->
        IF \E j \in 1..Len(players) :
             /\ players[j].status = "waiting"
             /\ findIndex(rm.players, players[j].id) = k - 1
        THEN [rm.players[k] EXCEPT !.status = "finished"]
        ELSE rm.players[k]]]

Tick_ExpiresEarly(i, e) ==
  /\ sent = <<>>
  /\ i \in intervals
  /\ e > i.elapsed \/ e = i.duration
  /\ LET timeLeft == Max(0, i.duration - e)
         ticked == (intervals \ {i}) \cup {[i EXCEPT !.elapsed = e]}
         update == [type |-> "time_update", to |-> Recipients(connections, i.roomId, 0),
                    timeLeft |-> timeLeft]
     IN IF timeLeft <= 1
        THEN LET tm == stopPhaseTimer([active |-> activeTimers, live |-> ticked], i.roomId)
                 rm == getRoom(i.roomId)
             IN IF rm = NoRoom
                THEN /\ SetTimers(tm) /\ sent' = <<update>> /\ UNCHANGED room
                ELSE LET res == progressPhase(finishWaiting(rm, rm.players), tm) IN
                     /\ room' = res.room
                     /\ SetTimers(res.timers)
                     /\ sent' = <<update,
                                  [type |-> "phase_changed",
                                   to |-> Recipients(connections, i.roomId, 0),
                                   room |-> res.room]>>
        ELSE /\ intervals' = ticked
             /\ sent' = <<update>>
             /\ UNCHANGED <<room, activeTimers>>
  /\ UNCHANGED <<gameChains, drawings, guesses, connections, nextPlayerId>>

\* the setInterval callback of startPhaseTimer for the live interval i; e is the
\* whole number of seconds since its start (kept up to the duration: timeLeft
\* is max(0, duration - e))
Tick(i, e) ==
  /\ sent = <<>>
  /\ i \in intervals
  /\ e > i.elapsed \/ e = i.duration
  /\ LET timeLeft == Max(0, i.duration - e)
         ticked == (intervals \ {i}) \cup {[i EXCEPT !.elapsed = e]}
         update == [type |-> "time_update", to |-> Recipients(connections, i.roomId, 0),
                    timeLeft |-> timeLeft]
     IN IF timeLeft = 0
        THEN LET tm == stopPhaseTimer([active |-> activeTimers, live |-> ticked], i.roomId)
                 rm == getRoom(i.roomId)
             IN IF rm = NoRoom
                THEN /\ SetTimers(tm) /\ sent' = <<update>> /\ UNCHANGED room
                ELSE LET res == progressPhase(finishWaiting(rm, rm.players), tm) IN
                     /\ room' = res.room
                     /\ SetTimers(res.timers)
                     /\ sent' = <<update,
                                  [type |-> "phase_changed",
                                   to |-> Recipients(connections, i.roomId, 0),
                                   room |-> res.room]>>
        ELSE /\ intervals' = ticked
             /\ sent' = <<update>>
             /\ UNCHANGED <<room, activeTimers>>
  /\ UNCHANGED <<gameChains, drawings, guesses, connections, nextPlayerId>>

(* ------------------------------ submissions ---------------------------- *)
\* if (allFinished && updatedRoom) of submit_prompt: the room and the timers
\* it leaves behind
completeWriting(r1, tm, rid) ==
  LET r2 == setAllStatus([r1 EXCEPT !.currentPhase = "drawing", !.currentRound = @ + 1],
                         r1.players, "waiting")
  IN [room |-> r2,
      timers |-> startPhaseTimer(stopPhaseTimer(tm, rid), rid, r2.drawingTime)]

\* if (allFinished && updatedRoom) of submit_drawing
completeDrawing(r1, tm, rid) ==
  LET r2 == setAllStatus(
              IF cycleReached(r1)
              THEN [r1 EXCEPT !.currentPhase = "results"]
              ELSE [r1 EXCEPT !.currentPhase = "guessing", !.currentRound = @ + 1],
              r1.players, "waiting")
  IN [room |-> r2,
      timers |-> IF r2.currentPhase = "guessing"
                 THEN startPhaseTimer(stopPhaseTimer(tm, rid), rid, r2.guessingTime)
                 ELSE stopPhaseTimer(tm, rid)]

\* if (allFinished && updatedRoom) of submit_guess
completeGuessing(r1, tm, rid) ==
  LET r2 == setAllStatus([r1 EXCEPT !.currentPhase = "drawing", !.currentRound = @ + 1],
                         r1.players, "waiting")
  IN [room |-> r2,
      timers |-> startPhaseTimer(stopPhaseTimer(tm, rid), rid, r2.drawingTime)]

Step(type, pid, content, round) ==
  [type |-> type, playerId |-> pid, content |-> content, round |-> round]

appendStep(chains, k, step) ==
  IF k # 0 THEN [chains EXCEPT ![k].steps = Append(@, step)] ELSE chains

HandleSubmitPrompt(c, rid, prompt) ==
  LET conn == connections[c]
      rm   == getRoom(rid)
  IN
  IF conn.playerId = NoPlayer \/ conn.roomId # rid THEN Ignore
  ELSE IF rm = NoRoom \/ rm.currentPhase # "writing" THEN Ignore
  ELSE IF findIndex(rm.players, conn.playerId) = -1 THEN Ignore
  ELSE LET playerIndex == findIndex(rm.players, conn.playerId)
           k  == findChain(gameChains, rid, playerIndex)
           r1 == updatePlayer(rm, conn.playerId, "finished")
           allFinished == everyFinished(r1)
           r2 == IF allFinished THEN completeWriting(r1, Timers, rid).room ELSE r1
           tm == IF allFinished THEN completeWriting(r1, Timers, rid).timers ELSE Timers
       IN /\ gameChains' = appendStep(gameChains, k,
                             Step("prompt", conn.playerId, prompt, rm.currentRound))
          /\ room' = r2
          /\ SetTimers(tm)
          /\ sent' = <<[type |-> "prompt_submitted", to |-> Recipients(connections, rid, 0),
                        room |-> r1, playerId |-> conn.playerId]>>
                     \o (IF allFinished
                         THEN <<[type |-> "phase_changed",
                                 to |-> Recipients(connections, rid, 0), room |-> r2]>>
                         ELSE <<>>)
          /\ UNCHANGED <<drawings, guesses, connections, nextPlayerId>>

StepsBelowBound == \A k \in 1..Len(gameChains) : Len(gameChains[k].steps) < MaxSteps

SubmitPrompt(c, rid, prompt) ==
  /\ Acting(c)
  /\ StepsBelowBound
  /\ OnMessage(c, "submit_prompt", HandleSubmitPrompt(c, rid, prompt))

HandleDrawingUpdate_Finishes(c, rid) ==
  IF connections[c].roomId # rid THEN Ignore
  ELSE /\ sent' = <<[type |-> "drawing_updated", to |-> Recipients(connections, rid, c),
                     playerId |-> connections[c].playerId]>>
       /\ room' = updatePlayer(room, connections[c].playerId, "finished")
       /\ UNCHANGED <<gameChains, drawings, guesses, connections, activeTimers,
                      intervals, nextPlayerId>>

HandleDrawingUpdate(c, rid) ==
  IF connections[c].roomId # rid THEN Ignore
  ELSE /\ sent' = <<[type |-> "drawing_updated", to |-> Recipients(connections, rid, c),
                     playerId |-> connections[c].playerId]>>
       /\ UNCHANGED <<room, gameChains, drawings, guesses, connections, activeTimers,
                      intervals, nextPlayerId>>

DrawingUpdate(c, rid) ==
  /\ Acting(c)
  /\ OnMessage(c, "drawing_update", HandleDrawingUpdate(c, rid))

promptMissing_Never(task) == FALSE

\* if (!playerTask.prompt)
promptMissing(task) == task.prompt = Undefined

HandleSubmitDrawing(c, rid, imageUrl) ==
  LET conn == connections[c]
      rm   == getRoom(rid)
      playerTask == getPlayerTask(rm, gameChains, drawings, conn.playerId)
  IN
  IF conn.playerId = NoPlayer \/ conn.roomId # rid THEN Ignore
  ELSE IF rm = NoRoom THEN Ignore
  ELSE IF playerTask.isNull THEN Reject(c, "Could not determine player task")
  ELSE IF promptMissing(playerTask) THEN Reject(c, "No prompt found for this player")
  ELSE LET drawing == [id |-> Len(drawings) + 1, roomId |-> rid,
                       playerId |-> conn.playerId, round |-> rm.currentRound,
                       prompt |-> playerTask.prompt, imageUrl |-> imageUrl]
           k  == findChain(gameChains, rid, playerTask.chainIndex)
           r1 == updatePlayer(rm, conn.playerId, "finished")
           allFinished == everyFinished(r1)
           r2 == IF allFinished THEN completeDrawing(r1, Timers, rid).room ELSE r1
           tm == IF allFinished THEN completeDrawing(r1, Timers, rid).timers ELSE Timers
       IN /\ drawings' = Append(drawings, drawing)
          /\ gameChains' = appendStep(gameChains, k,
                             Step("drawing", conn.playerId, imageUrl, rm.currentRound))
          /\ room' = r2
          /\ SetTimers(tm)
          /\ sent' = <<[type |-> "drawing_submitted", to |-> Recipients(connections, rid, 0),
                        room |-> r1, playerId |-> conn.playerId]>>
                     \o (IF allFinished
                         THEN <<[type |-> "phase_changed",
                                 to |-> Recipients(connections, rid, 0), room |-> r2]>>
                         ELSE <<>>)
          /\ UNCHANGED <<guesses, connections, nextPlayerId>>

SubmitDrawing(c, rid, imageUrl) ==
  /\ Acting(c)
  /\ StepsBelowBound
  /\ OnMessage(c, "submit_drawing", HandleSubmitDrawing(c, rid, imageUrl))

drawingMissing_Never(task) == FALSE

\* if (!playerTask.drawingImageUrl || !playerTask.drawingId)
drawingMissing(task) == task.drawingImageUrl = Undefined \/ task.drawingId = NoDrawing

HandleSubmitGuess(c, rid, guess) ==
  LET conn == connections[c]
      rm   == getRoom(rid)
      playerTask == getPlayerTask(rm, gameChains, drawings, conn.playerId)
  IN
  IF conn.playerId = NoPlayer \/ conn.roomId # rid THEN Ignore
  ELSE IF rm = NoRoom THEN Ignore
  ELSE IF playerTask.isNull THEN Reject(c, "Could not determine player task")
  ELSE IF drawingMissing(playerTask)
       THEN Reject(c, "No drawing found for this player")
  ELSE LET record == [id |-> Len(guesses) + 1, roomId |-> rid,
                      playerId |-> conn.playerId, drawingId |-> playerTask.drawingId,
                      round |-> rm.currentRound, guess |-> guess]
           k  == findChain(gameChains, rid, playerTask.chainIndex)
           r1 == updatePlayer(rm, conn.playerId, "finished")
           allFinished == everyFinished(r1)
           r2 == IF allFinished THEN completeGuessing(r1, Timers, rid).room ELSE r1
           tm == IF allFinished THEN completeGuessing(r1, Timers, rid).timers ELSE Timers
       IN /\ guesses' = Append(guesses, record)
          /\ gameChains' = appendStep(gameChains, k,
                             Step("guess", conn.playerId, guess, rm.currentRound))
          /\ room' = r2
          /\ SetTimers(tm)
          /\ sent' = <<[type |-> "guess_submitted", to |-> Recipients(connections, rid, 0),
                        room |-> r1, playerId |-> conn.playerId]>>
                     \o (IF allFinished
                         THEN <<[type |-> "phase_changed",
                                 to |-> Recipients(connections, rid, 0), room |-> r2]>>
                         ELSE <<>>)
          /\ UNCHANGED <<drawings, connections, nextPlayerId>>

SubmitGuess(c, rid, guess) ==
  /\ Acting(c)
  /\ StepsBelowBound
  /\ OnMessage(c, "submit_guess", HandleSubmitGuess(c, rid, guess))

\* next_round is in the schema and has no case in the switch
NextRound(c, rid) ==
  /\ Acting(c)
  /\ OnMessage(c, "next_round", Ignore)

\* a message that is no JSON or has none of the schema's types
Malformed(c) ==
  /\ Acting(c)
  /\ OnMessage(c, "malformed", Ignore)

Next ==
  \/ Flush /\ UNCHANGED <<submitted, pending>>
  \/ \E c \in Conns : Connect(c) /\ UNCHANGED <<submitted, pending>>
  \/ \E c \in Conns : Close(c) /\ UNCHANGED <<submitted, pending>>
  \/ \E c \in Conns, code \in RoomCodes, name \in Names :
       JoinRoom(c, code, name) /\ UNCHANGED <<submitted, pending>>
  \/ \E c \in Conns, rid \in RoomIds : LeaveRoom(c, rid) /\ UNCHANGED <<submitted, pending>>
  \/ \E c \in Conns, rid \in RoomIds : StartGame(c, rid) /\ UNCHANGED <<submitted, pending>>
  \/ \E c \in Conns, rid \in RoomIds, prompt \in Prompts :
       SubmitPrompt(c, rid, prompt) /\ UNCHANGED <<submitted, pending>>
  \/ \E c \in Conns, rid \in RoomIds : DrawingUpdate(c, rid) /\ UNCHANGED <<submitted, pending>>
  \/ \E c \in Conns, rid \in RoomIds, imageUrl \in Images :
       SubmitDrawing(c, rid, imageUrl) /\ UNCHANGED <<submitted, pending>>
  \/ \E c \in Conns, rid \in RoomIds, guess \in GuessTexts :
       SubmitGuess(c, rid, guess) /\ UNCHANGED <<submitted, pending>>
  \/ \E c \in Conns, rid \in RoomIds : NextRound(c, rid) /\ UNCHANGED <<submitted, pending>>
  \/ \E c \in Conns : Malformed(c) /\ UNCHANGED <<submitted, pending>>
  \/ \E i \in intervals, e \in 0..Max(DrawingTime, GuessingTime) :
       Tick(i, e) /\ UNCHANGED <<submitted, pending>>

Spec == Init /\ [][Next]_vars

(* ------------------------------ a full game ---------------------------- *)
\* The environment of a full game: players connect and join the lobby under
\* new names until the host starts the game; nobody leaves or disconnects; in
\* every phase every roster player sends the submission of that phase once
\* (game.tsx: submit_prompt in writing, submit_drawing in drawing, submit_guess
\* in guessing), and the phase timer does not run out before everyone has sent.
RosterIds == {room.players[k].id : k \in 1..Len(room.players)}

\* the players that have sent in the phase the handler leaves
Sending(c) ==
  IF room'.currentPhase # room.currentPhase THEN {}
  ELSE submitted \cup {connections[c].playerId}

MaySubmit(c, phase) ==
  /\ room.currentPhase = phase
  /\ connections[c].playerId \in RosterIds \ submitted

PlayJoin(c) ==
  /\ room.currentPhase = "lobby"
  /\ connections[c].playerId = NoPlayer
  /\ JoinRoom(c, TheCode, FreshName)
  /\ UNCHANGED <<submitted, pending>>

PlayStart(c) ==
  /\ room.currentPhase = "lobby"
  /\ StartGame(c, TheRoom)
  /\ submitted' = {}
  /\ UNCHANGED pending

PlayPrompt(c, prompt) ==
  /\ MaySubmit(c, "writing")
  /\ SubmitPrompt(c, TheRoom, prompt)
  /\ submitted' = Sending(c)
  /\ UNCHANGED pending

PlayDrawing(c, imageUrl) ==
  /\ MaySubmit(c, "drawing")
  /\ SubmitDrawing(c, TheRoom, imageUrl)
  /\ submitted' = Sending(c)
  /\ UNCHANGED pending

PlayGuess(c, guess) ==
  /\ MaySubmit(c, "guessing")
  /\ SubmitGuess(c, TheRoom, guess)
  /\ submitted' = Sending(c)
  /\ UNCHANGED pending

PlayTick(i, e) ==
  /\ submitted = RosterIds
  /\ Tick(i, e)
  /\ submitted' = IF room'.currentPhase # room.currentPhase THEN {} ELSE submitted
  /\ UNCHANGED pending

FullGameNext ==
  \/ Flush /\ UNCHANGED <<submitted, pending>>
  \/ \E c \in Conns : Connect(c) /\ UNCHANGED <<submitted, pending>>
  \/ \E c \in Conns : PlayJoin(c)
  \/ \E c \in Conns : PlayStart(c)
  \/ \E c \in Conns, prompt \in Prompts : PlayPrompt(c, prompt)
  \/ \E c \in Conns, imageUrl \in Images : PlayDrawing(c, imageUrl)
  \/ \E c \in Conns, guess \in GuessTexts : PlayGuess(c, guess)
  \/ \E i \in intervals, e \in 0..Max(DrawingTime, GuessingTime) : PlayTick(i, e)

FullGame == Init /\ [][FullGameNext]_vars

(* ------------------------- interleaved join_room ----------------------- *)
\* The join_room handler at its awaits.  The frames that reach the server in
\* one chunk of a connection have their 'message' events emitted in the same
\* tick: each handler runs up to its first await, on getRoomByCode, whose
\* result is the room stored at that moment, before the next handler starts;
\* the handlers then resume in turn, one await each (the microtask queue is
\* first in, first out).  The store replaces the room object at every write,
\* so the room a handler holds is the one it read.  Every connection sends
\* its join_room frames before it is bound to a player.
Frame(c, name, rm) ==
  [conn |-> c, name |-> name, room |-> rm, pc |-> "check",
   player |-> NoPlayer, updatedRoom |-> NoRoom]

\* the names the frames of a chunk can carry: names held in the room, or new
\* ones (the least ones, names being interchangeable)
BurstNames == UsedNames \cup {n \in Names : n <= Cardinality(UsedNames) + MaxBurst}

NameSeqs == UNION {[1..n -> BurstNames] : n \in 1..MaxBurst}

\* ws.on('message') for every join_room frame of the chunk, up to
\* await storage.getRoomByCode(...)
JoinBurst(c, code, names) ==
  /\ Acting(c)
  /\ pending = <<>>
  /\ connections[c].playerId = NoPlayer
  /\ \A k \in 1..Len(names) :
        names[k] \in UsedNames \/ names[k] <= Cardinality(UsedNames) + k
  /\ pending' = [k \in 1..Len(names) |->
                   Frame(c, names[k], getRoomByCode(toUpperCase(code)))]
  /\ sent' = <<>>
  /\ UNCHANGED <<room, gameChains, drawings, guesses, connections, activeTimers,
                 intervals, nextPlayerId, submitted>>

\* the handler that is first to resume, from the await it stopped at to its
\* next await or to its return
ResumeJoin ==
  /\ sent = <<>>
  /\ pending # <<>>
  /\ LET f == Head(pending)
         rest == Tail(pending)
         fail(text) == /\ sent' = <<ErrorMsg(f.conn, text)>>
                       /\ pending' = rest
                       /\ UNCHANGED <<room, connections, nextPlayerId>>
     IN
     IF f.pc = "check" THEN
       IF f.room = NoRoom THEN fail("Room not found")
       ELSE IF RoomIsFull(f.room) THEN fail("Room is full")
       ELSE IF NameTaken(f.room, f.name) THEN fail("Name already taken")
       ELSE LET player == [id |-> nextPlayerId, name |-> f.name,
                           isHost |-> (Len(f.room.players) = 0), socketId |-> f.conn,
                           status |-> "waiting"]
            IN /\ nextPlayerId <= MaxJoins
               /\ room' = addPlayerToRoom(getRoom(f.room.id), player)
               /\ nextPlayerId' = nextPlayerId + 1
               /\ pending' = Append(rest, [f EXCEPT !.pc = "added", !.player = player.id])
               /\ sent' = <<>>
               /\ UNCHANGED connections
     ELSE IF f.pc = "added" /\ Len(f.room.players) = 0 THEN
       /\ room' = [room EXCEPT !.hostId = f.player]
       /\ pending' = Append(rest, [f EXCEPT !.pc = "bound"])
       /\ sent' = <<>>
       /\ UNCHANGED <<connections, nextPlayerId>>
     ELSE IF f.pc = "added" \/ f.pc = "bound" THEN
       /\ connections' = [connections EXCEPT ![f.conn].playerId = f.player,
                                             ![f.conn].roomId = f.room.id]
       /\ pending' = Append(rest, [f EXCEPT !.pc = "reply",
                                            !.updatedRoom = getRoom(f.room.id)])
       /\ sent' = <<>>
       /\ UNCHANGED <<room, nextPlayerId>>
     ELSE
       /\ sent' = <<[type |-> "room_joined", to |-> {f.conn}, room |-> f.updatedRoom,
                     playerId |-> f.player],
                    [type |-> "player_joined",
                     to |-> Recipients(connections, f.room.id, f.conn),
                     room |-> f.updatedRoom, playerId |-> f.player]>>
       /\ pending' = rest
       /\ UNCHANGED <<room, connections, nextPlayerId>>
  /\ UNCHANGED <<gameChains, drawings, guesses, activeTimers, intervals, submitted>>

InterleavedNext ==
  \/ Flush /\ UNCHANGED <<submitted, pending>>
  \/ \E c \in Conns : Connect(c) /\ UNCHANGED <<submitted, pending>>
  \/ \E c \in Conns, code \in RoomCodes, names \in NameSeqs : JoinBurst(c, code, names)
  \/ ResumeJoin

Interleaved == Init /\ [][InterleavedNext]_vars

(* ---------------------------- task resolution -------------------------- *)
\* getPlayerTask as a function of the room and the stored chains, read through
\* GET /api/rooms/:roomId/player-task/:playerId.  The inputs are rooms of
\* MinPlayers players in a drawing or guessing round with the chains the
\* submission handlers write: a chain holds, in the order of the rounds, at
\* most one step per past round (none where its player sent nothing before
\* the timer ran out), a prompt of round 1, a drawing of every even round and
\* a guess of every odd round from 3 on, by the player the round assigns the
\* chain to, and the store holds one drawing record per drawing step.
TaskTexts == {"cat", "dog"}
TaskImages == {"img", "pic"}
NoStep == "none"

SlotType(r) == IF r = 1 THEN "prompt" ELSE IF r % 2 = 0 THEN "drawing" ELSE "guess"

SlotContents(r) == IF r % 2 = 0 THEN TaskImages ELSE TaskTexts

\* the id of the player that round r assigns chain ci to, of n players with
\* ids 1..n in roster order
SlotPhase(r) == IF r = 1 THEN "writing" ELSE IF r % 2 = 0 THEN "drawing" ELSE "guessing"

AuthorOf(ci, r, n) ==
  CHOOSE i \in 1..n : getChainIndexForPlayer(i - 1, r, n, SlotPhase(r)) = ci

\* the steps of chain ci for the contents pick gives the rounds 1..Len(pick)
StepsOf(ci, pick, n) ==
  SelectSeq([r \in 1..Len(pick) |->
               Step(SlotType(r), AuthorOf(ci, r, n), pick[r], r)],
            LAMBDA st : st.content # NoStep)

Picks(R) ==
  {f \in [1..(R - 1) -> {NoStep} \cup TaskTexts \cup TaskImages] :
      \A r \in 1..(R - 1) : f[r] = NoStep \/ f[r] \in SlotContents(r)}

\* one drawing record for every drawing step of the chains, in chain order
RECURSIVE DrawingsOf(_, _)
DrawingsOf(steps, n) ==
  IF steps = <<>> THEN <<>>
  ELSE IF Head(steps).type = "drawing"
       THEN <<[id |-> n, roomId |-> TheRoom, playerId |-> Head(steps).playerId,
               round |-> Head(steps).round, prompt |-> Undefined,
               imageUrl |-> Head(steps).content]>> \o DrawingsOf(Tail(steps), n + 1)
       ELSE DrawingsOf(Tail(steps), n)

TaskInit ==
  \E tr \in 1..MaxTotalRounds :
  \E R \in 2..(2 * tr) :
  \E ci \in 0..(MinPlayers - 1) :
  \E pick \in Picks(R) :
    LET phase == IF R % 2 = 0 THEN "drawing" ELSE "guessing"
        rm == [id |-> TheRoom, code |-> TheCode, hostId |-> 1,
               players |-> [k \in 1..MinPlayers |->
                              [id |-> k, name |-> k, isHost |-> (k = 1),
                               socketId |-> k, status |-> "waiting"]],
               maxPlayers |-> MinMaxPlayers,
               currentPhase |-> phase, currentRound |-> R, totalRounds |-> tr,
               drawingTime |-> DrawingTime, guessingTime |-> GuessingTime]
        steps == StepsOf(ci, pick, MinPlayers)
        tm == startPhaseTimer([active |-> [r \in RoomIds |-> NoTimer], live |-> {}],
                              TheRoom,
                              IF phase = "drawing" THEN DrawingTime ELSE GuessingTime)
    IN /\ room = rm
       /\ gameChains = [k \in 1..MinPlayers |->
                          [roomId |-> TheRoom, chainIndex |-> k - 1,
                           steps |-> IF k - 1 = ci THEN steps ELSE <<>>]]
       /\ drawings = DrawingsOf(steps, 1)
       /\ guesses = <<>>
       /\ connections = [c \in Conns |->
                           IF c <= MinPlayers
                           THEN [state |-> "open", playerId |-> c, roomId |-> TheRoom]
                           ELSE [state |-> "new", playerId |-> NoPlayer, roomId |-> NoRoomId]]
       /\ activeTimers = tm.active
       /\ intervals = tm.live
       /\ nextPlayerId = MinPlayers + 1
       /\ sent = <<>>
       /\ submitted = {}
       /\ pending = <<>>

\* app.get("/api/rooms/:roomId/player-task/:playerId")
PlayerTaskRoute(rid, pid) ==
  /\ sent = <<>>
  /\ LET rm == getRoom(rid) IN
     sent' = IF rm = NoRoom
             THEN <<[type |-> "response", to |-> {}, status |-> 404, playerId |-> pid]>>
             ELSE <<[type |-> "response", to |-> {}, status |-> 200, playerId |-> pid,
                     task |-> getPlayerTask(rm, gameChains, drawings, pid)]>>
  /\ UNCHANGED <<room, gameChains, drawings, guesses, connections, activeTimers,
                 intervals, nextPlayerId, submitted, pending>>

TaskNext ==
  \/ Flush /\ UNCHANGED <<submitted, pending>>
  \/ \E rid \in RoomIds, pid \in 1..MaxJoins : PlayerTaskRoute(rid, pid)

TaskSpec == TaskInit /\ [][TaskNext]_vars

(* ------------------------------ a timed game --------------------------- *)
\* The environment of a game nobody plays: players connect and join the lobby
\* under new names, the host starts the game, and from then on no message of
\* a player is processed; the phase timer alone drives the room.
TickStep ==
  \E i \in intervals, e \in 0..Max(DrawingTime, GuessingTime) :
     Tick(i, e) /\ UNCHANGED <<submitted, pending>>

FlushStep == Flush /\ UNCHANGED <<submitted, pending>>

TimedGameNext ==
  \/ FlushStep
  \/ \E c \in Conns : Connect(c) /\ UNCHANGED <<submitted, pending>>
  \/ \E c \in Conns : PlayJoin(c)
  \/ \E c \in Conns : PlayStart(c)
  \/ TickStep

\* setInterval keeps calling the callback of a live interval every second,
\* and the event loop writes out the messages of a handler that has returned:
\* neither can stay due forever.
TimedGame ==
  Init /\ [][TimedGameNext]_vars /\ WF_vars(TickStep) /\ WF_vars(FlushStep)

(* ------------------------------ departures ----------------------------- *)
\* The environment of a room that its players abandon: players connect and
\* join the lobby under new names, the host starts the game (and may start it
\* again), and at any time any connection sends leave_room or closes, until
\* nobody is left; the phase timer runs meanwhile.  No submissions are sent.
DeparturesNext ==
  \/ Flush /\ UNCHANGED <<submitted, pending>>
  \/ \E c \in Conns : Connect(c) /\ UNCHANGED <<submitted, pending>>
  \/ \E c \in Conns : PlayJoin(c)
  \/ \E c \in Conns : StartGame(c, TheRoom) /\ UNCHANGED <<submitted, pending>>
  \/ \E c \in Conns : Leaving(c, TheRoom) /\ UNCHANGED <<submitted, pending>>
  \/ \E c \in Conns : Closing(c) /\ UNCHANGED <<submitted, pending>>
  \/ \E i \in intervals, e \in 0..Max(DrawingTime, GuessingTime) :
       Tick(i, e) /\ UNCHANGED <<submitted, pending>>

Departures == Init /\ [][DeparturesNext]_vars

(* ======================================================================= *)
(*                               Properties                                *)
(* ======================================================================= *)
TimerRunning(rid) ==
  /\ activeTimers[rid] # NoTimer
  /\ \E i \in intervals : i.id = activeTimers[rid] /\ i.roomId = rid

NoTimerFor(rid) ==
  /\ activeTimers[rid] = NoTimer
  /\ \A i \in intervals : i.roomId # rid

IsHostConn(c) ==
  /\ connections[c].playerId # NoPlayer
  /\ getPlayerIsHost(room, connections[c].playerId)

StoreUnchanged ==
  UNCHANGED <<room, gameChains, drawings, guesses, connections, activeTimers, intervals>>

Emitted(type) == \E k \in 1..Len(sent) : sent[k].type = type

C2_StartCreatesChains ==
  [][\A c \in Conns :
       (/\ StartGame(c, TheRoom)
        /\ IsHostConn(c) /\ connections[c].roomId = TheRoom
        /\ room.currentPhase = "lobby"
        /\ Len(room.players) >= MinPlayers)
       => (/\ room'.currentPhase = "writing"
           /\ room'.currentRound = 1
           /\ room'.players = room.players
           /\ Len(gameChains') = Len(room.players)
           /\ \A k \in 1..Len(gameChains') :
                gameChains'[k] = [roomId |-> TheRoom, chainIndex |-> k - 1, steps |-> <<>>]
           /\ TimerRunning(TheRoom)')]_vars

\* the first start_game of a room has just been processed
C2_Witness ==
  /\ Emitted("game_started")
  /\ StartsSoFar = 1
  /\ room.currentPhase = "writing"
  /\ Len(room.players) >= MinPlayers
  /\ Len(gameChains) = Len(room.players)

\* C3: a start_game from a connection whose player is not the host, or for a
\* room with fewer than 4 players, is answered with one error to the sender
\* and changes nothing; with exactly 4 players the host's start_game succeeds.
C3_RejectedStartChangesNothing ==
  [][\A c \in Conns :
       /\ (/\ StartGame(c, TheRoom)
           /\ connections[c].playerId # NoPlayer
           /\ ~IsHostConn(c) \/ Len(room.players) < MinPlayers)
          => (/\ Len(sent') = 1
              /\ sent'[1].type = "error"
              /\ sent'[1].to = {c}
              /\ StoreUnchanged)
       /\ (/\ StartGame(c, TheRoom)
           /\ IsHostConn(c) /\ connections[c].roomId = TheRoom
           /\ Len(room.players) = MinPlayers)
          => (/\ Len(sent') = 1
              /\ sent'[1].type = "game_started"
              /\ room'.currentPhase = "writing")]_vars

\* the host's start_game on a room of 3 players has just been refused
C3_Witness ==
  /\ Len(room.players) = MinPlayers - 1
  /\ room.currentPhase = "lobby"
  /\ \E c \in Conns :
       /\ IsHostConn(c)
       /\ sent = <<ErrorMsg(c, "Need at least 4 players to start")>>

PhaseEdges ==
  {<<"lobby", "writing">>, <<"writing", "drawing">>, <<"drawing", "guessing">>,
   <<"drawing", "results">>, <<"guessing", "drawing">>}

\* C4: every change of currentPhase is one of the edges lobby->writing,
\* writing->drawing, drawing->guessing, drawing->results, guessing->drawing,
\* and a start_game processed outside lobby changes neither the phase, the
\* round nor the chains.
C4_OnlyListedPhaseEdges ==
  [][/\ room'.currentPhase # room.currentPhase
        => <<room.currentPhase, room'.currentPhase>> \in PhaseEdges
     /\ \A c \in Conns, rid \in RoomIds :
          (StartGame(c, rid) /\ room.currentPhase # "lobby")
          => (/\ room'.currentPhase = room.currentPhase
              /\ room'.currentRound = room.currentRound
              /\ gameChains' = gameChains)]_vars

\* C5: results is terminal: from a room in results no step changes the phase,
\* the round or the chains, and no phase timer is active for the room.
C5_ResultsIsTerminal ==
  [][room.currentPhase = "results"
       => (/\ room'.currentPhase = "results"
           /\ room'.currentRound = room.currentRound
           /\ gameChains' = gameChains
           /\ NoTimerFor(TheRoom)
           /\ NoTimerFor(TheRoom)')]_vars

Phases == {"lobby", "writing", "drawing", "guessing", "results"}

\* the largest round a room of the model can be in
MaxRound == 2 * MaxTotalRounds + 1

TimerFresh(rid, duration) ==
  /\ activeTimers[rid] # NoTimer
  /\ \E i \in intervals :
       /\ i.id = activeTimers[rid] /\ i.roomId = rid
       /\ i.duration = duration /\ i.elapsed = 0

\* C9: a step that completes a drawing phase (it emits phase_changed from a
\* room in drawing) leaves the room in results, with the round unchanged and
\* no timer, when floor(currentRound / 2) >= totalRounds, and otherwise in
\* guessing with currentRound + 1 and a fresh timer of guessingTime; with
\* totalRounds 1 the drawing phase of round 2 goes to results.
C9_DrawingCompletion ==
  [][(room.currentPhase = "drawing" /\ Emitted("phase_changed")')
       => /\ IF room.currentRound \div 2 >= room.totalRounds
             THEN /\ room'.currentPhase = "results"
                  /\ room'.currentRound = room.currentRound
                  /\ NoTimerFor(TheRoom)'
             ELSE /\ room'.currentPhase = "guessing"
                  /\ room'.currentRound = room.currentRound + 1
                  /\ TimerFresh(TheRoom, room.guessingTime)'
          /\ (room.totalRounds = 1 /\ room.currentRound = 2)
               => room'.currentPhase = "results"]_vars

\* the drawing phase of round 2 of a room with totalRounds 1 has just completed
C9_Witness ==
  /\ Emitted("phase_changed")
  /\ room.totalRounds = 1
  /\ room.currentPhase = "results"
  /\ room.currentRound = 2
  /\ NoTimerFor(TheRoom)

\* the step is an expiry of the phase timer: its first message is the
\* time_update with timeLeft 0
Expiry == sent # <<>> /\ sent[1].type = "time_update" /\ sent[1].timeLeft = 0

\* C10: at an expiry of the phase timer every roster player in status waiting
\* is set to finished (closed connection or not), no chain step, drawing or
\* guess is recorded, the roster keeps its players, and the room advances by
\* exactly one phase edge.
C10_TimeoutAdvancesOnePhase ==
  [][Expiry'
       => /\ everyFinished(finishWaiting(room, room.players))
          /\ gameChains' = gameChains
          /\ drawings' = drawings
          /\ guesses' = guesses
          /\ Len(room'.players) = Len(room.players)
          /\ \A k \in 1..Len(room.players) : room'.players[k].id = room.players[k].id
          /\ <<room.currentPhase, room'.currentPhase>>
               \in PhaseEdges \ {<<"lobby", "writing">>}
          /\ Emitted("phase_changed")']_vars

\* the timer has just expired on a room that still lists a player whose
\* connection is closed
C10_Witness ==
  /\ Expiry
  /\ Emitted("phase_changed")
  /\ \E k \in 1..Len(room.players) :
       connections[room.players[k].socketId].state = "closed"

stepTypes(chain) == [k \in 1..Len(chain.steps) |-> chain.steps[k].type]

\* prompt, drawing, guess, drawing, guess, ...
Alternates(types) ==
  \A k \in 1..Len(types) :
     types[k] = (IF k = 1 THEN "prompt" ELSE IF k % 2 = 0 THEN "drawing" ELSE "guess")

\* C6: in a full game, every chain of the room read at results holds the
\* steps prompt, drawing, guess, drawing, guess, ... in strict alternation,
\* 1 + 2 * totalRounds of them.
C6_ChainsAlternateAtResults ==
  room.currentPhase = "results"
    => \A k \in 1..Len(gameChains) :
          gameChains[k].roomId = room.id
            => /\ Len(gameChains[k].steps) = 1 + 2 * room.totalRounds
               /\ Alternates(stepTypes(gameChains[k]))

\* the drawing task of the player at index i: the prompt of chain (i + 1) mod N
DrawsNextChain(rm, chains, i) ==
  LET N    == Len(rm.players)
      k    == findChain(chains, rm.id, (i + 1) % N)
      task == getPlayerTask(rm, chains, drawings, rm.players[i + 1].id)
  IN /\ k # 0
     /\ chains[k].steps # <<>>
     /\ ~task.isNull
     /\ task.chainIndex = (i + 1) % N
     /\ task.prompt = chains[k].steps[1].content

\* C8: the submit_prompt of the last roster player of a writing phase to send
\* one leaves the room in drawing with currentRound 2 and every status
\* waiting, chain i holding exactly one step, the prompt of the player at
\* index i, and the player at index i drawing the prompt of chain (i + 1) mod N.
C8_LastPromptStartsDrawing ==
  [][\A c \in Conns, prompt \in Prompts :
       (/\ PlayPrompt(c, prompt)
        /\ submitted \cup {connections[c].playerId} = RosterIds)
       => /\ room'.currentPhase = "drawing"
          /\ room'.currentRound = 2
          /\ \A k \in 1..Len(room'.players) : room'.players[k].status = "waiting"
          /\ \A i \in 0..(Len(room'.players) - 1) :
               LET k == findChain(gameChains', room.id, i) IN
               /\ k # 0
               /\ Len(gameChains'[k].steps) = 1
               /\ gameChains'[k].steps[1].type = "prompt"
               /\ gameChains'[k].steps[1].playerId = room'.players[i + 1].id
               /\ DrawsNextChain(room', gameChains', i)]_vars

\* C11: a drawing_update, in any state, leaves the room (phase, round, roster,
\* statuses), the chains, the drawings, the guesses, the connections and the
\* timers as they were; it emits nothing, or one drawing_updated to the open
\* connections of the room other than the sender.
C11_DrawingUpdateChangesNothing ==
  [][\A c \in Conns, rid \in RoomIds :
       DrawingUpdate(c, rid)
       => /\ StoreUnchanged
          /\ \/ sent' = <<>>
             \/ /\ Len(sent') = 1
                /\ sent'[1].type = "drawing_updated"
                /\ sent'[1].playerId = connections[c].playerId
                /\ sent'[1].to = {d \in Conns \ {c} :
                                    /\ connections[d].state = "open"
                                    /\ connections[d].roomId = rid}]_vars

\* a drawing_update of a player has just been relayed to another connection
\* of the room during a drawing phase
C11_Witness ==
  /\ room.currentPhase = "drawing"
  /\ Len(sent) = 1
  /\ sent[1].type = "drawing_updated"
  /\ sent[1].playerId # NoPlayer
  /\ sent[1].to # {}

TimersOf(rid) == {i \in intervals : i.roomId = rid}

\* at most one live interval per room, and it is the one activeTimers names
OneTimerPerRoom ==
  \A rid \in RoomIds :
     /\ Cardinality(TimersOf(rid)) <= 1
     /\ \A i \in TimersOf(rid) : activeTimers[rid] = i.id
     /\ activeTimers[rid] # NoTimer => \E i \in TimersOf(rid) : i.id = activeTimers[rid]

\* C12: in every state each room has at most one live timer, the one
\* activeTimers holds for it; a step that starts a timer for a room that has
\* one leaves only the new timer, not yet ticked.
C12_OneTimerPerRoom ==
  [][/\ OneTimerPerRoom
     /\ OneTimerPerRoom'
     /\ \A c \in Conns :
          (StartGame(c, TheRoom) /\ TimerRunning(TheRoom) /\ Emitted("game_started")')
          => /\ Cardinality(TimersOf(TheRoom)') = 1
             /\ TimerFresh(TheRoom, room.drawingTime)']_vars

\* a second start_game has replaced the timer of the running game
C12_Witness ==
  /\ Emitted("game_started")
  /\ StartsSoFar = 2
  /\ room.currentPhase = "writing"
  /\ TimerFresh(TheRoom, room.drawingTime)
  /\ Cardinality(TimersOf(TheRoom)) = 1

\* the step type a phase produces
stepTypeOf(phase) ==
  IF phase = "writing" THEN "prompt"
  ELSE IF phase = "drawing" THEN "drawing"
  ELSE IF phase = "guessing" THEN "guess"
  ELSE "none"

\* C17: a step appended to a chain has the type of the phase the room is in
\* when it is appended (prompt in writing, drawing in drawing, guess in
\* guessing); a submit_drawing processed in a phase other than drawing and a
\* submit_guess processed in a phase other than guessing append no step and
\* store no record.
C17_StepTypeMatchesPhase ==
  [][/\ \A k \in 1..Len(gameChains) :
          Len(gameChains'[k].steps) > Len(gameChains[k].steps)
          => /\ Len(gameChains'[k].steps) = Len(gameChains[k].steps) + 1
             /\ gameChains'[k].steps[Len(gameChains'[k].steps)].type
                  = stepTypeOf(room.currentPhase)
     /\ \A c \in {d \in Conns : Acting(d)}, rid \in RoomIds, imageUrl \in Images :
          (room.currentPhase # "drawing" /\ SubmitDrawing(c, rid, imageUrl))
          => (gameChains' = gameChains /\ drawings' = drawings /\ room' = room)
     /\ \A c \in {d \in Conns : Acting(d)}, rid \in RoomIds, guess \in GuessTexts :
          (room.currentPhase # "guessing" /\ SubmitGuess(c, rid, guess))
          => (gameChains' = gameChains /\ guesses' = guesses /\ room' = room)]_vars

\* a roster player's submit_drawing has just been refused in a guessing phase
C17_Witness ==
  /\ room.currentPhase = "guessing"
  /\ \E c \in Conns :
       /\ connections[c].playerId \in RosterIds
       /\ sent = <<ErrorMsg(c, "No prompt found for this player")>>

Hosts == {k \in 1..Len(room.players) : room.players[k].isHost}

\* C18: whenever the roster is non-empty, exactly one player of the room has
\* isHost = true and the room's hostId is the id of that player (the player
\* who joined the room first).
C18_ExactlyOneHost ==
  Len(room.players) > 0
    => /\ Cardinality(Hosts) = 1
       /\ \A k \in Hosts : room.hostId = room.players[k].id

ChainIndicesOf(rid) ==
  {gameChains[k].chainIndex : k \in {j \in 1..Len(gameChains) : gameChains[j].roomId = rid}}

\* C19: whenever the phase of the room is not lobby, the room has as many
\* chains as roster players, and their chain indices are 0..players.length-1,
\* each once.
C19_ChainsMatchRoster ==
  room.currentPhase # "lobby"
    => /\ Len(getGameChainsByRoom(gameChains, room.id)) = Len(room.players)
       /\ ChainIndicesOf(room.id) = 0..(Len(room.players) - 1)

NamesDistinct ==
  \A j, k \in 1..Len(room.players) :
     room.players[j].name = room.players[k].name => j = k

WithoutPlayer(players, pid) ==
  LET k == findIndex(players, pid) + 1 IN
  [j \in 1..(Len(players) - 1) |-> IF j < k THEN players[j] ELSE players[j + 1]]

\* C21: a leave_room of a connection bound to a player, and a close of such a
\* connection while the room is in lobby, removes exactly that player from
\* the roster, the other players keeping their records and their relative
\* order; when the roster is empty afterwards, no phase timer is active for
\* the room and no interval of the room is live.
C21_DepartureRemovesPlayer ==
  [][\A c \in {d \in Conns : Acting(d) /\ connections[d].playerId # NoPlayer} :
       (\/ Leaving(c, TheRoom)
        \/ Closing(c) /\ room.currentPhase = "lobby")
       => LET pid == connections[c].playerId IN
          /\ pid \in RosterIds
          /\ room'.players = WithoutPlayer(room.players, pid)
          /\ pid \notin {room'.players[k].id : k \in 1..Len(room'.players)}
          /\ Len(room'.players) = 0 => NoTimerFor(TheRoom)']_vars

\* the last player of a running game has just left: the roster is empty and
\* the timer of the game is gone
C21_Witness ==
  /\ Emitted("player_left")
  /\ Len(room.players) = 0
  /\ room.currentPhase \in {"writing", "drawing", "guessing"}
  /\ NoTimerFor(TheRoom)

\* C22: a close of a connection bound to a player while the room's phase is
\* not lobby leaves the room (roster, statuses, phase, round), the chains,
\* the drawings, the guesses and the timer as they were and emits nothing;
\* of the connections only the closed one changes: its entry is gone.
C22_CloseInGameKeepsRoom ==
  [][\A c \in {d \in Conns : Acting(d) /\ connections[d].playerId # NoPlayer} :
       (Close(c) /\ room.currentPhase # "lobby")
       => /\ room' = room
          /\ gameChains' = gameChains
          /\ drawings' = drawings
          /\ guesses' = guesses
          /\ activeTimers' = activeTimers
          /\ intervals' = intervals
          /\ sent' = <<>>
          /\ connections'[c].state = "closed"
          /\ \A d \in Conns \ {c} : connections'[d] = connections[d]]_vars

\* a player of a running game whose only connection has been closed is still
\* on the roster, and the timer of the game runs
C22_Witness ==
  /\ room.currentPhase \in {"writing", "drawing", "guessing"}
  /\ TimerRunning(TheRoom)
  /\ sent = <<>>
  /\ \A j, k \in 1..Len(room.players) :
        room.players[j].socketId = room.players[k].socketId => j = k
  /\ \E k \in 1..Len(room.players) :
        connections[room.players[k].socketId].state = "closed"

\* the ordered list of the player ids of a roster
PlayerIds(rm) == [k \in 1..Len(rm.players) |-> rm.players[k].id]

\* C23: while the phase of the room is writing, drawing or guessing, no step
\* (join_room, leave_room, close, submission, timer expiry) changes the
\* ordered list of the room's player ids.
C23_RosterFixedDuringGame ==
  [][room.currentPhase \in {"writing", "drawing", "guessing"}
       => PlayerIds(room') = PlayerIds(room)]_vars

\* the advancement the submission handler of the room's phase makes once its
\* sender was the last player not finished: every player is finished then
completeBySubmission(rm, tm) ==
  LET r1 == finishWaiting(rm, rm.players) IN
  IF rm.currentPhase = "writing" THEN completeWriting(r1, tm, rm.id)
  ELSE IF rm.currentPhase = "drawing" THEN completeDrawing(r1, tm, rm.id)
  ELSE completeGuessing(r1, tm, rm.id)

\* C24: an expiry of the phase timer of a room in writing, drawing or guessing
\* leaves the phase, the round, the player statuses and the timers (the timer
\* started, or none) that the completion code of that phase's submission
\* handler computes from the same room and timers with every player finished.
C24_ExpiryMatchesSubmission ==
  [][(Expiry' /\ room.currentPhase \in {"writing", "drawing", "guessing"})
       => LET adv == completeBySubmission(room, Timers) IN
          /\ room'.currentPhase = adv.room.currentPhase
          /\ room'.currentRound = adv.room.currentRound
          /\ room'.players = adv.room.players
          /\ activeTimers' = adv.timers.active
          /\ intervals' = adv.timers.live]_vars

\* the timer of the guessing phase of round 3 has just expired: the room is
\* in drawing, round 4, with a fresh timer of drawingTime
C24_Witness ==
  /\ Expiry
  /\ Emitted("phase_changed")
  /\ room.currentPhase = "drawing"
  /\ room.currentRound = 4
  /\ TimerFresh(TheRoom, room.drawingTime)

\* C25: when no message of a player is processed after the start_game that
\* put the room in writing, the ticks of the phase timer alone bring the room
\* to results, for every totalRounds and phase durations of the model.
C25_EventuallyResults ==
  (room.currentPhase = "writing") ~> (room.currentPhase = "results")

\* a game of the largest totalRounds has run to results on timer expiries
\* alone: the room is in the last drawing round and no chain holds a step
C25_Witness ==
  /\ room.currentPhase = "results"
  /\ room.totalRounds = MaxTotalRounds
  /\ room.currentRound = 2 * room.totalRounds
  /\ gameChains # <<>>
  /\ \A k \in 1..Len(gameChains) : gameChains[k].steps = <<>>
  /\ intervals = {}

\* C26: a callback that runs is the callback of the interval activeTimers
\* holds for its room, so a timer that was stopped, replaced or has expired
\* delivers no time_update and forces no advancement; a step that takes the
\* timer of a room away leaves no interval of the room live, a step that
\* replaces it leaves only intervals not yet ticked, and after an expiry the
\* expired interval is not live: it cannot expire a second time.
C26_StoppedTimerIsSilent ==
  [][/\ \A i \in intervals, e \in 0..Max(DrawingTime, GuessingTime) :
          Tick(i, e) => activeTimers[i.roomId] = i.id
     /\ \A rid \in RoomIds :
          (activeTimers[rid] # NoTimer /\ activeTimers'[rid] = NoTimer)
          => TimersOf(rid)' = {}
     /\ (Emitted("game_started")' \/ Expiry')
          => \A i \in intervals' : i.elapsed = 0]_vars

\* the timer of a drawing phase has just expired: the only live interval is
\* the fresh timer of the guessing phase
C26_Witness ==
  /\ Expiry
  /\ room.currentPhase = "guessing"
  /\ TimerFresh(TheRoom, room.guessingTime)
  /\ Cardinality(intervals) = 1

\* C27: when the join_room handlers of one room that are in flight together
\* have all returned, the room is one that the same requests processed one
\* after the other can leave: its roster holds at most maxPlayers players and
\* at most one of them is host.
C27_InterleavedJoinsSerialize ==
  pending = <<>>
    => /\ Len(room.players) <= room.maxPlayers
       /\ Cardinality(Hosts) <= 1

\* C29: a message that is no JSON or has none of the types of the message
\* schema (submit_prompt is one: the schema does not list it) is answered
\* with one error, "Invalid message format", to the sending connection only,
\* and leaves the room, the chains, the drawings, the guesses, the
\* connections and the timers as they were.
C29_MalformedChangesNothing ==
  [][\A c \in {d \in Conns : Acting(d)} :
       (\/ Malformed(c)
        \/ \E rid \in RoomIds, prompt \in Prompts : SubmitPrompt(c, rid, prompt))
       => /\ sent' = <<ErrorMsg(c, "Invalid message format")>>
          /\ StoreUnchanged
          /\ nextPlayerId' = nextPlayerId]_vars

\* a roster player's message has just been refused as malformed during the
\* writing phase, while other connections of the room are open
C29_Witness ==
  /\ room.currentPhase = "writing"
  /\ \E c \in Conns :
       /\ connections[c].playerId \in RosterIds
       /\ Recipients(connections, TheRoom, c) # {}
       /\ sent = <<ErrorMsg(c, "Invalid message format")>>

\* no chain of the room has the index computed for the player, or the chain
\* has no step of the wanted kind
NoTextStep(rm, chains, pid) ==
  LET idx == getChainIndexForPlayer(findIndex(rm.players, pid), rm.currentRound,
                                    Len(rm.players), rm.currentPhase)
      k == findChain(chains, rm.id, idx)
  IN \/ k = 0
     \/ \A j \in 1..Len(chains[k].steps) :
          chains[k].steps[j].type \notin {"prompt", "guess"}

NoDrawingStep(rm, chains, pid) ==
  LET idx == getChainIndexForPlayer(findIndex(rm.players, pid), rm.currentRound,
                                    Len(rm.players), rm.currentPhase)
      k == findChain(chains, rm.id, idx)
  IN \/ k = 0
     \/ \A j \in 1..Len(chains[k].steps) :
          ~(chains[k].steps[j].type = "drawing"
            /\ chains[k].steps[j].round = rm.currentRound - 1)

\* C30: a submit_drawing of a roster player for whom no chain of the computed
\* index exists or whose chain holds no prompt or guess step, and a
\* submit_guess of a roster player for whom no chain exists or whose chain
\* holds no drawing step of round currentRound - 1, is answered with one
\* error to the sender and changes nothing: no drawing, guess or step is
\* stored, and the room (statuses, phase, round) and the timers are as before.
C30_NoTaskChangesNothing ==
  [][\A c \in {d \in Conns : Acting(d) /\ connections[d].playerId \in RosterIds} :
       LET pid == connections[c].playerId IN
       /\ (/\ NoTextStep(room, gameChains, pid)
           /\ \E imageUrl \in Images : SubmitDrawing(c, TheRoom, imageUrl))
          => /\ Len(sent') = 1 /\ sent'[1].type = "error" /\ sent'[1].to = {c}
             /\ StoreUnchanged
       /\ (/\ NoDrawingStep(room, gameChains, pid)
           /\ \E guess \in GuessTexts : SubmitGuess(c, TheRoom, guess))
          => /\ Len(sent') = 1 /\ sent'[1].type = "error" /\ sent'[1].to = {c}
             /\ StoreUnchanged]_vars

\* a roster player's submit_guess has just been refused in a guessing phase:
\* the chain of the player exists and holds no drawing
C30_Witness ==
  /\ room.currentPhase = "guessing"
  /\ \E c \in Conns :
       /\ connections[c].playerId \in RosterIds
       /\ findChain(gameChains, TheRoom,
                     getChainIndexForPlayer(findIndex(room.players, connections[c].playerId),
                                            room.currentRound, Len(room.players),
                                            room.currentPhase)) # 0
       /\ NoDrawingStep(room, gameChains, connections[c].playerId)
       /\ sent = <<ErrorMsg(c, "No drawing found for this player")>>

\* C31: no step lowers the currentRound of the room, and every step that
\* changes its phase raises currentRound by exactly 1.
C31_RoundMonotonic ==
  [][/\ room'.currentRound >= room.currentRound
     /\ room'.currentPhase # room.currentPhase
          => room'.currentRound = room.currentRound + 1]_vars

\* the positions of the steps of a chain that hold a text, and of those that
\* hold the drawing of a round
TextPositions(steps) == {j \in 1..Len(steps) : steps[j].type \in {"prompt", "guess"}}

DrawingPositions(steps, round) ==
  {j \in 1..Len(steps) : steps[j].type = "drawing" /\ steps[j].round = round}

\* C32: the task resolved for a roster player is on the chain the assignment
\* gives the player; in a drawing phase its text is the content of the last
\* prompt or guess step of that chain; in a guessing phase its image is the
\* content of the drawing step of that chain of round currentRound - 1, and
\* it has no image when the chain has no drawing step of that round.
C32_TaskResolution ==
  [][\A pid \in RosterIds :
       PlayerTaskRoute(TheRoom, pid)
       => LET task == sent'[1].task
              idx == getChainIndexForPlayer(findIndex(room.players, pid), room.currentRound,
                                            Len(room.players), room.currentPhase)
              steps == gameChains[findChain(gameChains, TheRoom, idx)].steps
              T == TextPositions(steps)
              D == DrawingPositions(steps, room.currentRound - 1)
          IN /\ ~task.isNull
             /\ task.chainIndex = idx
             /\ room.currentPhase = "drawing"
                  => /\ T # {}
                          => task.prompt = steps[CHOOSE j \in T : \A i \in T : i <= j].content
                     /\ T = {} => task.prompt = Undefined
             /\ room.currentPhase = "guessing"
                  => /\ D # {} => \E j \in D : task.drawingImageUrl = steps[j].content
                     /\ D = {} => task.drawingImageUrl = Undefined]_vars

\* the task of a drawing round 4 has just been resolved on a chain that holds
\* a prompt and a guess of another content: the text is the guess
C32_Witness ==
  /\ room.currentPhase = "drawing"
  /\ room.currentRound = 4
  /\ sent # <<>>
  /\ sent[1].type = "response"
  /\ sent[1].status = 200
  /\ \E k \in 1..Len(gameChains) :
       /\ gameChains[k].chainIndex = sent[1].task.chainIndex
       /\ Len(gameChains[k].steps) = 3
       /\ gameChains[k].steps[1].content # gameChains[k].steps[3].content
       /\ sent[1].task.prompt = gameChains[k].steps[3].content

\* C35: every tick of a phase timer of duration D broadcasts timeLeft =
\* max(0, D - seconds elapsed), a value of 0..D that is not above the one of
\* the tick before; when that value is 0 the tick stops the timer (the only
\* timer its room can have afterwards is a fresh one) and advances the phase
\* of its room, and when it is not the tick leaves timer, room and phase
\* alone.
C35_TimeLeft ==
  [][\A i \in intervals : \A e \in 0..Max(DrawingTime, GuessingTime) :
       Tick(i, e)
       => LET timeLeft == sent'[1].timeLeft IN
          /\ sent'[1].type = "time_update"
          /\ timeLeft = Max(0, i.duration - e)
          /\ timeLeft \in 0..i.duration
          /\ timeLeft <= Max(0, i.duration - i.elapsed)
          /\ timeLeft = 0
               => /\ \A k \in intervals' : k.roomId = i.roomId => k.elapsed = 0
                  /\ getRoom(i.roomId) # NoRoom
                       => /\ Len(sent') = 2
                          /\ sent'[2].type = "phase_changed"
                          /\ room'.currentPhase # room.currentPhase
          /\ timeLeft > 0
               => /\ Len(sent') = 1
                  /\ room' = room
                  /\ activeTimers' = activeTimers
                  /\ \E k \in intervals' : k.id = i.id /\ k.elapsed = e]_vars

\* a drawing timer has ticked once with time left and the room is still
\* drawing
C35_Witness ==
  /\ room # NoRoom
  /\ room.currentPhase = "drawing"
  /\ Len(sent) = 1
  /\ sent[1].type = "time_update"
  /\ sent[1].timeLeft = 1
  /\ \E k \in intervals : k.roomId = TheRoom /\ k.elapsed = 1 /\ k.duration = DrawingTime

\* C36: between handler executions a room in writing, drawing or guessing
\* with a non-empty roster never has every player in status finished.
C36_AdvanceNeverPending ==
  (/\ room # NoRoom
   /\ room.currentPhase \in {"writing", "drawing", "guessing"}
   /\ room.players # <<>>)
  => ~everyFinished(room)

\* the step that made the last players finished, the expiry of the writing
\* timer, has advanced the room to drawing with everybody waiting
C36_Witness ==
  /\ room # NoRoom
  /\ room.currentPhase = "drawing"
  /\ Len(room.players) >= MinPlayers
  /\ Len(sent) = 2
  /\ sent[1].type = "time_update"
  /\ sent[1].timeLeft = 0
  /\ sent[2].type = "phase_changed"
  /\ \A k \in 1..Len(room.players) : room.players[k].status = "waiting"

\* C37: phase and round stay in step: currentRound is 0 in lobby, 1 in
\* writing, even and at least 2 in drawing and in results, odd and at least 3
\* in guessing.
C37_PhaseRoundInStep ==
  room # NoRoom
  => /\ room.currentPhase = "lobby" => room.currentRound = 0
     /\ room.currentPhase = "writing" => room.currentRound = 1
     /\ room.currentPhase \in {"drawing", "results"}
          => room.currentRound >= 2 /\ room.currentRound % 2 = 0
     /\ room.currentPhase = "guessing"
          => room.currentRound >= 3 /\ room.currentRound % 2 = 1

\* a second drawing phase, reached through a guessing phase
C37_Witness ==
  /\ room # NoRoom
  /\ room.currentPhase = "drawing"
  /\ room.currentRound = 4

C39_ForeignRoomChangesNothing ==
  [][\A d \in {c \in Conns : Acting(c)} : \A rid \in RoomIds :
       (/\ connections[d].playerId = NoPlayer \/ connections[d].roomId # rid
        /\ \/ LeaveRoom(d, rid)
           \/ StartGame(d, rid)
           \/ DrawingUpdate(d, rid)
           \/ \E p \in Prompts : SubmitPrompt(d, rid, p)
           \/ \E img \in Images : SubmitDrawing(d, rid, img)
           \/ \E g \in GuessTexts : SubmitGuess(d, rid, g))
       => UNCHANGED <<room, gameChains, drawings, guesses, activeTimers, intervals,
                      nextPlayerId>>]_vars

\* a connection bound to no player has been refused a start_game for a room
\* that has players
C39_Witness ==
  /\ room # NoRoom
  /\ room.players # <<>>
  /\ \E c \in Conns :
       /\ connections[c].state = "open"
       /\ connections[c].playerId = NoPlayer
       /\ sent = <<ErrorMsg(c, "Unauthorized")>>

\* C40: each connection accounts for at most one roster entry: in lobby
\* every roster player is the bound player of exactly one open connection.
C40_OneEntryPerConnection ==
  (room # NoRoom /\ room.currentPhase = "lobby")
  => \A k \in 1..Len(room.players) :
       Cardinality({c \in Conns : /\ connections[c].state = "open"
                                  /\ connections[c].playerId = room.players[k].id}) = 1

====
